---- MODULE Spec2Model ----
(***************************************************************************)
(* A model of the pluggable review engines of pr-helper (WhatThePatch):    *)
(* the engine registry, the four engines' validate_config /                *)
(* test_connection / generate_review, the scratch-directory lifecycle of   *)
(* the process-CLI engines, prompt construction, and the Codex transcript  *)
(* parser.                                                                 *)
(*                                                                         *)
(* Text is a sequence of atoms.  An atom is one character (" ", "\n",      *)
(* "#") or an indivisible word; the atom "T" stands for a well-formed      *)
(* timestamp bracket "[2024-01-01T00:00:00]".  A line is a text without    *)
(* "\n".                                                                   *)
(***************************************************************************)
EXTENDS Integers, Sequences, FiniteSets, TLC

\* ------------------------------------------------------------------ bounds

\* Longest transcript, in lines, of the general parser specification.
MaxLines == 3

\* Longest capturing region / thinking block, in lines, of the shaped
\* transcripts.
MaxRegion == 1

\* Longest review, in content lines, of the shaped transcripts.
MaxContent == 2

\* ------------------------------------------------------------------ text

NL == "\n"

IsSpace(c) == c \in {" ", NL}

RECURSIVE LStrip(_)
LStrip(s) ==
    IF s = <<>> THEN <<>>
    ELSE IF IsSpace(Head(s)) THEN LStrip(Tail(s)) ELSE s

RECURSIVE RStrip(_)
RStrip(s) ==
    IF s = <<>> THEN <<>>
    ELSE IF IsSpace(s[Len(s)]) THEN RStrip(SubSeq(s, 1, Len(s) - 1)) ELSE s

\* str.strip(): whitespace removed at both ends, newlines included.
Strip(s) == RStrip(LStrip(s))

\* str.split("\n"): the empty text splits into one empty line.
RECURSIVE SplitFrom(_, _)
SplitFrom(s, cur) ==
    IF s = <<>> THEN <<cur>>
    ELSE IF Head(s) = NL THEN <<cur>> \o SplitFrom(Tail(s), <<>>)
    ELSE SplitFrom(Tail(s), Append(cur, Head(s)))

Split(s) == SplitFrom(s, <<>>)

\* "\n".join(lines)
RECURSIVE Join(_)
Join(ls) ==
    IF ls = <<>> THEN <<>>
    ELSE IF Len(ls) = 1 THEN ls[1]
    ELSE ls[1] \o <<NL>> \o Join(Tail(ls))

StartsWith(s, p) == Len(s) >= Len(p) /\ SubSeq(s, 1, Len(p)) = p

Contains(s, p) ==
    \E i \in 1..(Len(s) - Len(p) + 1) : SubSeq(s, i, i + Len(p) - 1) = p

\* ------------------------------------------------- the transcript parser

\* re.match(r"^\[\d{4}-\d{2}-\d{2}T\d{2}:\d{2}:\d{2}\]\s*(.*)$", line)
TimestampMatch(line) == line # <<>> /\ line[1] = "T"

\* timestamp_match.group(1).strip()
TagContent(line) == Strip(Tail(line))

\* The prefixes that end response capture.
StopPrefixes ==
    { <<"thinking">>, <<"exec", " ">>, <<"tokens used:">>,
      <<"OpenAI Codex">>, <<"User instructions">> }

IsStopTag(tag) == \E p \in StopPrefixes : StartsWith(tag, p)

IsCommandResult(tag) ==
    Contains(tag, <<" ", "succeeded">>) \/ Contains(tag, <<" ", "failed">>)

HeaderWords ==
    {"workdir:", "model:", "provider:", "approval:", "sandbox:", "reasoning:"}

\* As IsSkippedLine, without the test for the "Shell cwd was reset" notice.
IsSkippedLineNoReset(line) ==
    \/ line # <<>> /\ line[1] \in HeaderWords
    \/ Strip(line) = <<"--------">>

\* The three tests that skip a non-timestamped line in either state.
IsSkippedLine(line) ==
    \/ line # <<>> /\ line[1] \in HeaderWords
    \/ Strip(line) = <<"--------">>
    \/ line # <<>> /\ line[1] = "Shell cwd was reset"

\* As LineStep, but every timestamped header starts the capture.
LineStepBroken(st, line) ==
    IF TimestampMatch(line)
    THEN [st EXCEPT !.in_response = TRUE]
    ELSE IF IsSkippedLine(line) THEN st
    ELSE IF st.in_response
         THEN [st EXCEPT !.response_lines = Append(@, line)]
         ELSE st

\* As LineStep, but a non-response marker does not end the capture.
LineStepNoStop(st, line) ==
    IF TimestampMatch(line)
    THEN IF TagContent(line) = <<"codex">>
         THEN [st EXCEPT !.in_response = TRUE]
         ELSE st
    ELSE IF IsSkippedLine(line) THEN st
    ELSE IF st.in_response
         THEN [st EXCEPT !.response_lines = Append(@, line)]
         ELSE st

\* As LineStep, but a timestamped header of no known kind ends the capture.
LineStepOtherStops(st, line) ==
    IF TimestampMatch(line)
    THEN IF TagContent(line) = <<"codex">>
         THEN [st EXCEPT !.in_response = TRUE]
         ELSE [st EXCEPT !.in_response = FALSE]
    ELSE IF IsSkippedLine(line) THEN st
    ELSE IF st.in_response
         THEN [st EXCEPT !.response_lines = Append(@, line)]
         ELSE st

\* As LineStep, but only lines that are not blank are captured.
LineStepSkipsBlank(st, line) ==
    IF TimestampMatch(line)
    THEN LET tag_content == TagContent(line) IN
         IF tag_content = <<"codex">> THEN [st EXCEPT !.in_response = TRUE]
         ELSE IF IsStopTag(tag_content) THEN [st EXCEPT !.in_response = FALSE]
         ELSE IF IsCommandResult(tag_content)
              THEN [st EXCEPT !.in_response = FALSE]
         ELSE st
    ELSE IF IsSkippedLine(line) THEN st
    ELSE IF st.in_response /\ Strip(line) # <<>>
         THEN [st EXCEPT !.response_lines = Append(@, line)]
         ELSE st

\* As LineStep, but a timestamped header of no known kind falls through
\* to the capture instead of being skipped.
LineStepCapturesHeader(st, line) ==
    LET capture == IF IsSkippedLine(line) THEN st
                   ELSE IF st.in_response
                        THEN [st EXCEPT !.response_lines = Append(@, line)]
                        ELSE st
    IN IF TimestampMatch(line)
       THEN LET tag_content == TagContent(line) IN
            IF tag_content = <<"codex">> THEN [st EXCEPT !.in_response = TRUE]
            ELSE IF IsStopTag(tag_content)
                 THEN [st EXCEPT !.in_response = FALSE]
            ELSE IF IsCommandResult(tag_content)
                 THEN [st EXCEPT !.in_response = FALSE]
            ELSE capture
       ELSE capture

\* As LineStep, but without the test for command-result lines.
LineStepNoResult(st, line) ==
    IF TimestampMatch(line)
    THEN LET tag_content == TagContent(line) IN
         IF tag_content = <<"codex">> THEN [st EXCEPT !.in_response = TRUE]
         ELSE IF IsStopTag(tag_content) THEN [st EXCEPT !.in_response = FALSE]
         ELSE st
    ELSE IF IsSkippedLine(line) THEN st
    ELSE IF st.in_response
         THEN [st EXCEPT !.response_lines = Append(@, line)]
         ELSE st

\* One iteration of the loop over lines: st is [in_response, response_lines].
LineStep(st, line) ==
    IF TimestampMatch(line)
    THEN LET tag_content == TagContent(line) IN
         IF tag_content = <<"codex">> THEN [st EXCEPT !.in_response = TRUE]
         ELSE IF IsStopTag(tag_content) THEN [st EXCEPT !.in_response = FALSE]
         ELSE IF IsCommandResult(tag_content)
              THEN [st EXCEPT !.in_response = FALSE]
         ELSE st
    ELSE IF IsSkippedLine(line) THEN st
    ELSE IF st.in_response
         THEN [st EXCEPT !.response_lines = Append(@, line)]
         ELSE st

ParserInit == [in_response |-> FALSE, response_lines |-> <<>>]

RECURSIVE RunLines(_, _)
RunLines(st, ls) ==
    IF ls = <<>> THEN st ELSE RunLines(LineStep(st, Head(ls)), Tail(ls))

\* re.search(r"^(# .+)$", result, re.MULTILINE): the positions where a line
\* "# " followed by at least one character starts.
HeadingStarts(r) ==
    { i \in 1..Len(r) :
        /\ i = 1 \/ r[i - 1] = NL
        /\ r[i] = "#"
        /\ i + 2 <= Len(r)
        /\ r[i + 1] = " "
        /\ r[i + 2] # NL }

Min(S) == CHOOSE x \in S : \A y \in S : x <= y

\* As PostProcess, but an answer without a heading is dropped.
PostProcessDropsUnheaded(r) ==
    IF r # <<>> /\ r[1] # "#"
    THEN IF HeadingStarts(r) # {}
         THEN SubSeq(r, Min(HeadingStarts(r)), Len(r))
         ELSE <<>>
    ELSE r

\* As PostProcess, without the cut at the first heading.
PostProcessNoCut(r) == r

\* The post-processing of the joined, stripped capture buffer.

PostProcess(r) ==
    IF r # <<>> /\ r[1] # "#" /\ HeadingStarts(r) # {}
    THEN SubSeq(r, Min(HeadingStarts(r)), Len(r))
    ELSE r

\* As Assemble, without the strip.
AssembleNoStrip(response_lines) == Join(response_lines)

\* "\n".join(response_lines).strip()
Assemble(response_lines) == Strip(Join(response_lines))

\* _parse_codex_output as a function of its input.
ParseCodexOutput(text) ==
    PostProcess(Assemble(RunLines(ParserInit, Split(Strip(text))).response_lines))

\* ------------------------------------------------------- the registry

\* ENGINES: the registry, in declaration order (a dict keeps it).
ENGINES ==
    << [id |-> "claude-api", cls |-> "ClaudeAPIEngine"],
       [id |-> "claude-cli", cls |-> "ClaudeCLIEngine"],
       [id |-> "openai-api", cls |-> "OpenAIAPIEngine"],
       [id |-> "openai-codex-cli", cls |-> "OpenAICodexCLIEngine"] >>

\* ENGINES.keys()
Keys(reg) == [i \in DOMAIN reg |-> reg[i].id]

Registered(name) == \E i \in DOMAIN ENGINES : ENGINES[i].id = name

ClassOf(name) == ENGINES[CHOOSE i \in DOMAIN ENGINES : ENGINES[i].id = name].cls

\* list_engines()
list_engines == Keys(ENGINES)

\* As Available, but a list written out by hand that was not kept up.
AvailableStale == <<"claude-api", "claude-cli">>

\* The identifiers get_engine puts in its "Unknown engine" message.
Available == Keys(ENGINES)

\* {}: every key of a sub-section is read with .get(key, "").
EmptyConfig == [api_key |-> "", path |-> ""]

\* As SubSection, but every engine is handed the section of claude-api.
SubSectionOfDefault(cfg, name) ==
    IF "claude-api" \in DOMAIN cfg THEN cfg["claude-api"] ELSE EmptyConfig

\* config.get("engines", {}).get(engine_name, {})
SubSection(cfg, name) ==
    IF name \in DOMAIN cfg THEN cfg[name] ELSE EmptyConfig

NoEngine == [cls |-> "none", config |-> EmptyConfig]

\* BaseEngine.__init__: stores the configuration, nothing else.
Construct(cls, engine_config) == [cls |-> cls, config |-> engine_config]

\* A validate_config that keeps the path it resolved in self.config.
SelfAfterCachesPath(o, e) ==
    IF o = "validate_config" /\ e.config.path = ""
    THEN [e EXCEPT !.config.path = "/usr/local/bin/cli"]
    ELSE e

\* The engine after one of its methods ran: no method assigns to
\* self.config or to a key of it, the configuration is read with .get only.
SelfAfter(o, e) == e

IsAPI(e) == e.cls \in {"ClaudeAPIEngine", "OpenAIAPIEngine"}
IsCLI(e) == e.cls \in {"ClaudeCLIEngine", "OpenAICodexCLIEngine"}

\* ------------------------------------------------------ validate_config

\* The (is_valid, error) pair: error is "None" when valid.
Valid == [ok |-> TRUE, reason |-> "None"]
Invalid(reason) == [ok |-> FALSE, reason |-> reason]

\* The two hosted-API engines: a non-empty key that is not the placeholder.
ValidateAPI(cfg) ==
    IF cfg.api_key = "" THEN Invalid("API key not configured")
    ELSE IF cfg.api_key = "PLACEHOLDER"
         THEN Invalid("API key is placeholder value")
    ELSE Valid

\* The two process-CLI engines: the executable exists at the configured
\* path, or is found on the search path.
ValidateCLI(cfg, environment) ==
    IF cfg.path # ""
    THEN IF environment.exists THEN Valid ELSE Invalid("CLI not found at path")
    ELSE IF environment.which THEN Valid ELSE Invalid("CLI not found in PATH")

ValidateConfig(e, environment) ==
    IF IsAPI(e) THEN ValidateAPI(e.config) ELSE ValidateCLI(e.config, environment)

\* -------------------------------------------------------- build_prompt

\* A template is a sequence of pieces: literal text, "{name}", "{}" (a
\* positional field), a lone "{", or a doubled brace "{{" / "}}".
Lit(v) == [t |-> "lit", v |-> v]
Ph(v) == [t |-> "ph", v |-> v]
Esc(v) == [t |-> "esc", v |-> v]
Pos == [t |-> "pos", v |-> ""]
Open == [t |-> "open", v |-> ""]

\* The keyword arguments build_prompt passes to str.format; pr_url alone
\* has a default.
RequiredKeys == {"title", "source_branch", "target_branch", "description", "diff"}

\* As FormatArgs, but the title field is fed from the description.
FormatArgsMixedUp(pr_data, ticket_id) ==
    [ticket_id |-> ticket_id,
     pr_title |-> pr_data["description"],
     pr_url |-> IF "pr_url" \in DOMAIN pr_data THEN pr_data["pr_url"] ELSE "",
     source_branch |-> pr_data["source_branch"],
     target_branch |-> pr_data["target_branch"],
     pr_description |-> pr_data["description"],
     diff |-> pr_data["diff"]]

FormatArgs(pr_data, ticket_id) ==
    [ticket_id |-> ticket_id,
     pr_title |-> pr_data["title"],
     pr_url |-> IF "pr_url" \in DOMAIN pr_data THEN pr_data["pr_url"] ELSE "",
     source_branch |-> pr_data["source_branch"],
     target_branch |-> pr_data["target_branch"],
     pr_description |-> pr_data["description"],
     diff |-> pr_data["diff"]]

PromptOk(text) == [ok |-> TRUE, exc |-> "-", text |-> text]
PromptRaises(exc) == [ok |-> FALSE, exc |-> exc, text |-> <<>>]

\* str.format(**kw): pieces are rendered left to right, and the first piece
\* that cannot be rendered raises.
RECURSIVE Format(_, _, _)
Format(tpl, kw, acc) ==
    IF tpl = <<>> THEN PromptOk(acc)
    ELSE LET p == Head(tpl) IN
         IF p.t = "lit" THEN Format(Tail(tpl), kw, Append(acc, p.v))
         ELSE IF p.t = "esc" THEN Format(Tail(tpl), kw, Append(acc, p.v))
         ELSE IF p.t = "ph"
              THEN IF p.v \in DOMAIN kw
                   THEN Format(Tail(tpl), kw, Append(acc, kw[p.v]))
                   ELSE PromptRaises("KeyError")
         ELSE IF p.t = "pos" THEN PromptRaises("IndexError")
         ELSE PromptRaises("ValueError")

\* BaseEngine.build_prompt: the arguments are evaluated first.
build_prompt(pr_data, ticket_id, prompt_template) ==
    IF ~(RequiredKeys \subseteq DOMAIN pr_data) THEN PromptRaises("KeyError")
    ELSE Format(prompt_template, FormatArgs(pr_data, ticket_id), <<>>)

\* ----------------------------------------------------------- outcomes

NoOutcome ==
    [kind |-> "none", exc |-> "-", ok |-> FALSE, msg |-> "-",
     detail |-> <<>>, value |-> <<>>]

\* return (ok, msg)
Pair(ok, msg) == [NoOutcome EXCEPT !.kind = "pair", !.ok = ok, !.msg = msg]

\* return text
Returns(text) == [NoOutcome EXCEPT !.kind = "value", !.ok = TRUE, !.value = text]

\* raise exc(msg + detail)
Raises(exc, msg, detail) ==
    [NoOutcome EXCEPT !.kind = "raise", !.exc = exc, !.msg = msg,
                      !.detail = detail]

EngineError(msg) == Raises("EngineError", msg, <<>>)

\* error_msg[:500]
ErrorBodyLimit == 500

Truncate(text, n) == SubSeq(text, 1, IF Len(text) < n THEN Len(text) ELSE n)

\* A backend text longer than the limit of the error bodies.
LongText == [i \in 1..(ErrorBodyLimit + 1) |-> "x"]

\* result.stderr or result.stdout or "Unknown error"
ErrorBody(stdout, stderr) ==
    IF stderr # <<>> THEN stderr
    ELSE IF stdout # <<>> THEN stdout ELSE <<"Unknown error">>

\* ------------------------------------------------ scratch directories

DirNames == {"tmp-a", "tmp-b"}

NoDir == "none"

EmptyDisk == [d \in {} |-> <<>>]

\* As Rmtree, but nothing is removed.
RmtreeSkipped(d, dk) == dk

\* shutil.rmtree(temp_dir, ignore_errors=True)
Rmtree(d, dk) == [x \in DOMAIN dk \ {d} |-> dk[x]]

\* tempfile.mkdtemp: a new, empty directory.
EmptyDir == [n \in {} |-> <<>>]

Mkdir(d, dk) ==
    [x \in DOMAIN dk \cup {d} |-> IF x = d THEN EmptyDir ELSE dk[x]]

\* path.write_text(content), for each file of files (name -> content).
WriteFiles(d, dk, files) ==
    [dk EXCEPT ![d] = [n \in DOMAIN @ \cup DOMAIN files |->
                          IF n \in DOMAIN files THEN files[n] ELSE @[n]]]

PermissionsFile == ".claude/settings.local.json"

\* The settings _setup_permissions writes: paths relative to the directory
\* the file is in, and two read-only commands.
Permissions ==
    [allow |-> {"Read(./**)", "Edit(./**)", "Bash(find:*)", "Bash(ls:*)"},
     deny |-> {}, ask |-> {}]

\* The f-string of pr-metadata.txt.
Metadata(req) ==
    <<"PR Title: ", req.pr_data["title"], NL,
      "Ticket ID: ", req.ticket_id, NL,
      "Source Branch: ", req.pr_data["source_branch"], NL,
      "Target Branch: ", req.pr_data["target_branch"], NL, NL,
      "PR Description:", NL, req.pr_data["description"], NL>>

\* What is written to each staged file.
FileContent(n, req) ==
    IF n = "diff.patch" THEN req.pr_data["diff"]
    ELSE IF n = "pr-metadata.txt" THEN Metadata(req)
    ELSE IF n = "review-template.md" THEN req.prompt_template
    ELSE Permissions

\* As StagedFiles, but the template is not written for reference.
StagedFilesNoTemplate(e) ==
    {"diff.patch", "pr-metadata.txt"}
        \cup (IF e.cls = "ClaudeCLIEngine" THEN {PermissionsFile} ELSE {})

\* The files generate_review stages before it spawns the program.
StagedFiles(e) ==
    {"diff.patch", "pr-metadata.txt", "review-template.md"}
        \cup (IF e.cls = "ClaudeCLIEngine" THEN {PermissionsFile} ELSE {})

\* Whether the call makes a scratch directory at all.
UsesTempDir(e, o) ==
    \/ e.cls = "ClaudeCLIEngine" /\ o \in {"test_connection", "generate_review"}
    \/ e.cls = "OpenAICodexCLIEngine" /\ o = "generate_review"

\* ------------------------------------------------------ child processes

ClaudeTestTimeout == 60
CodexTestTimeout == 120

\* The timeout= argument of subprocess.run: absent ({}) in generate_review.
RunTimeout(e, o) ==
    IF o = "test_connection"
    THEN IF e.cls = "ClaudeCLIEngine" THEN {ClaudeTestTimeout}
         ELSE {CodexTestTimeout}
    ELSE {}

\* returncode is {} until the child has exited; stdout and stderr are what
\* the child has written to its two streams when it exits.
NoChild ==
    [state |-> "none", timeout |-> {}, hangs |-> FALSE, cwd |-> NoDir,
     returncode |-> {}, stdout |-> <<>>, stderr |-> <<>>]

\* ------------------------------------------- reading the backend's answer

\* What a claude child wrote to stdout: the text, and what json.loads makes
\* of it ("invalid": JSONDecodeError; "dict"; "list": JSON, but no object).
ClaudeOut(raw, json, is_error, has_result, res) ==
    [raw |-> raw, json |-> json, is_error |-> is_error,
     has_result |-> has_result, result |-> res]

ReviewText == <<"#", " ", "PR Review: PROJ-42", NL, "LGTM">>

ClaudeOutputs ==
    { ClaudeOut(<<>>, "invalid", FALSE, FALSE, <<>>),
      ClaudeOut(<<"plain text">>, "invalid", FALSE, FALSE, <<>>),
      ClaudeOut(<<"{envelope}", NL>>, "dict", FALSE, TRUE, ReviewText),
      ClaudeOut(<<"{envelope}", NL>>, "dict", FALSE, TRUE, <<>>),
      ClaudeOut(<<"{envelope}", NL>>, "dict", TRUE, TRUE, <<"quota exceeded">>),
      ClaudeOut(<<"{envelope}", NL>>, "dict", TRUE, TRUE, LongText),
      ClaudeOut(<<"{no result}">>, "dict", FALSE, FALSE, <<>>),
      ClaudeOut(<<"[1]">>, "list", FALSE, FALSE, <<>>) }

\* What a codex child wrote to stdout: a transcript.
CodexOutputs ==
    { <<>>,
      <<"T", " ", "thinking", NL, "t">>,
      <<"T", " ", "codex", NL, "LGTM">>,
      <<"T", " ", "codex", NL>> \o ReviewText
          \o <<NL, "T", " ", "tokens used:", " ", "42", NL>> }

StderrTexts ==
    { <<>>, <<"authentication", " ", "required">>, <<"boom">>, LongText }

\* As CapturedStdout, but the claude child runs with stderr redirected
\* into stdout: the text of the one stream holds both, and an envelope
\* followed by more text is no JSON.
StdoutWithStderr(e, out, err) ==
    IF e.cls = "ClaudeCLIEngine"
    THEN [out EXCEPT !.raw = @ \o err,
                     !.json = IF err = <<>> THEN @ ELSE "invalid"]
    ELSE out

\* result.stdout of subprocess.run(..., capture_output=True): what the
\* child wrote to stdout; what it wrote to stderr is in result.stderr.
CapturedStdout(e, out, err) == out

\* As InterpretCodex, but a non-zero exit raises only when no review was
\* parsed.
InterpretCodexLenient(rc, out, err) ==
    LET text == ParseCodexOutput(out) IN
    IF text # <<>> THEN Returns(text)
    ELSE IF rc # 0
         THEN Raises("EngineError", "Codex CLI failed",
                     Truncate(ErrorBody(out, err), ErrorBodyLimit))
    ELSE EngineError("Codex CLI returned empty response")

\* Lines 190-205 of claude_cli.py: the exit code, then the JSON envelope.
InterpretClaude(rc, out, err) ==
    IF rc # 0
    THEN Raises("EngineError", "Claude CLI failed",
                Truncate(ErrorBody(out.raw, err), ErrorBodyLimit))
    ELSE LET text == Strip(out.raw) IN
         IF out.json = "invalid" THEN Returns(text)
         ELSE IF out.json = "dict"
              THEN IF out.is_error
                   THEN Raises("EngineError", "Claude error", out.result)
                   ELSE Returns(IF out.has_result THEN out.result ELSE text)
         ELSE Returns(text)

\* Lines 257-266 of openai_codex_cli.py: the exit code, then the transcript.
InterpretCodex(rc, out, err) ==
    IF rc # 0
    THEN Raises("EngineError", "Codex CLI failed",
                Truncate(ErrorBody(out, err), ErrorBodyLimit))
    ELSE LET text == ParseCodexOutput(out) IN
         IF text = <<>> THEN EngineError("Codex CLI returned empty response")
         ELSE Returns(text)

TestBodyLimit == 200

\* Lines 79-95 of claude_cli.py.
ProbeClaude(rc, out, err) ==
    IF rc = 0
    THEN IF out.json = "invalid" THEN Pair(TRUE, "None")
         ELSE IF out.json = "list" THEN Pair(FALSE, "Test failed")
         ELSE IF ~out.is_error THEN Pair(TRUE, "None")
         ELSE Pair(FALSE, "Claude error result")
    ELSE IF Contains(out.raw \o err, <<"Invalid API key">>)
         THEN Pair(FALSE, "Invalid API key configured in Claude CLI")
    ELSE IF Contains(out.raw \o err, <<"authentication">>)
         THEN Pair(FALSE, "Claude CLI authentication issue")
    ELSE [Pair(FALSE, "CLI error") EXCEPT
              !.detail = Truncate(out.raw \o err, TestBodyLimit)]

\* Lines 166-182 of openai_codex_cli.py.
ProbeCodex(rc, out, err) ==
    IF rc = 0
    THEN IF ParseCodexOutput(out) # <<>> THEN Pair(TRUE, "None")
         ELSE Pair(FALSE, "Codex CLI returned empty response")
    ELSE IF Contains(out \o err, <<"authentication">>)
            \/ Contains(out \o err, <<"unauthorized">>)
         THEN Pair(FALSE, "Codex CLI authentication issue")
    ELSE IF Contains(out \o err, <<"not found">>)
         THEN Pair(FALSE, "Codex CLI not properly installed")
    ELSE IF Contains(out \o err, <<"trusted directory">>)
         THEN Pair(FALSE, "Run from a git repository")
    ELSE [Pair(FALSE, "CLI error") EXCEPT
              !.detail = Truncate(out \o err, TestBodyLimit)]

\* What the hosted API does with the one request it is sent.
ApiResponses == {"ok", "auth", "rate_limit", "api_error", "timeout", "malformed"}

ApiText == <<"#", "#", " ", "Looks good">>

\* str(e) of the exception the SDK raised.
ApiErrorBodies == { <<"overloaded">>, LongText }

\* The except clauses without the one for RateLimitError, which is an
\* APIError.
InterpretApiNoRateLimit(resp, body) ==
    IF resp = "ok" THEN Returns(ApiText)
    ELSE IF resp = "auth" THEN EngineError("Invalid API key")
    ELSE IF resp \in {"rate_limit", "api_error", "timeout"}
         THEN Raises("EngineError", "API error", body)
    ELSE Raises("EngineError", "Failed to generate review", body)

\* Lines 91-107 of claude_api.py and openai_api.py.
InterpretApi(resp, body) ==
    IF resp = "ok" THEN Returns(ApiText)
    ELSE IF resp = "auth" THEN EngineError("Invalid API key")
    ELSE IF resp = "rate_limit"
         THEN EngineError("Rate limit exceeded. Please try again later.")
    ELSE IF resp \in {"api_error", "timeout"}
         THEN Raises("EngineError", "API error", body)
    ELSE Raises("EngineError", "Failed to generate review", body)

\* A loop that sends the request again after a rate limit.
AfterResponseRetry(resp) ==
    IF resp = "rate_limit" THEN "ready" ELSE "returned"

\* Every except clause of the request raises or returns: no loop surrounds
\* the request, whatever the answer.
AfterResponse(resp) == "returned"

\* Lines 57-70 of claude_api.py and openai_api.py: the answer is not read.
ProbeApi(resp) ==
    IF resp \in {"ok", "malformed"} THEN Pair(TRUE, "None")
    ELSE IF resp = "auth" THEN Pair(FALSE, "Invalid API key")
    ELSE Pair(FALSE, "API error")

\* The except clauses without the one for subprocess.TimeoutExpired in
\* test_connection.
CaughtInCLITimeoutEscapes(o, exc) ==
    IF o = "generate_review"
    THEN Raises("EngineError", "Failed to generate review", <<exc>>)
    ELSE IF exc = "FileNotFoundError" THEN Pair(FALSE, "CLI not found")
    ELSE IF exc = "TimeoutExpired" THEN Raises(exc, "", <<>>)
    ELSE [Pair(FALSE, "Test failed") EXCEPT !.detail = <<exc>>]

\* The except clauses around the staging and the run of a CLI engine:
\* generate_review wraps the exception, test_connection reports it.
CaughtInCLI(o, exc) ==
    IF o = "generate_review"
    THEN Raises("EngineError", "Failed to generate review", <<exc>>)
    ELSE IF exc = "FileNotFoundError" THEN Pair(FALSE, "CLI not found")
    ELSE IF exc = "TimeoutExpired" THEN Pair(FALSE, "CLI timed out")
    ELSE [Pair(FALSE, "Test failed") EXCEPT !.detail = <<exc>>]

\* ------------------------------------------------------------ variables

VARIABLES
    \* the transcript parser (_parse_codex_output)
    output,          \* the text handed to the parser
    lines,           \* output.strip().split("\n")
    idx,             \* position of the loop over lines (1-based)
    in_response,     \* FALSE = Idle, TRUE = Capturing
    response_lines,  \* the capture buffer
    result,          \* the value returned
    ppc,             \* "start", "loop", "done" ("off": no parse is modelled)
    shape,           \* how the input was built (never read by the parser)
    \* the registry and one engine
    engine_name,     \* the identifier asked for
    config,          \* the "engines" table of the configuration
    engine,          \* the instance get_engine returned: [cls, config]
    env,             \* the machine: executable present, SDK installed
    \* one call on the engine
    op,              \* "validate_config", "test_connection", "generate_review"
    pc,              \* the position in get_engine or in the call
    request,         \* [pr_data, ticket_id, prompt_template]
    prompt,          \* what build_prompt gave
    temp_dir,        \* the local temp_dir
    disk,            \* scratch directory -> file name -> content
    child,           \* the spawned program
    outcome,         \* what the call returned or raised
    probes,          \* processes spawned + API requests sent by this call
    created,         \* scratch directories made by this call
    fault,           \* what went wrong in this call (never read by the code)
    \* one run of the review pipeline (main of whatthepatch.py)
    mpc,             \* the position in main ("off": no run is modelled)
    exit_status,     \* {} while the process runs, then {its exit status}
    saved,           \* the reviews save_review has written
    calls            \* calls of engine.generate_review made by this run

pvars == <<output, lines, idx, in_response, response_lines, result, ppc, shape>>

evars == <<engine_name, config, engine, env, op, pc, request, prompt, temp_dir,
           disk, child, outcome, probes, created, fault>>

mvars == <<mpc, exit_status, saved, calls>>

vars == <<pvars, evars, mvars>>

\* ------------------------------------------------- the engine: inputs

NoPrompt == PromptOk(<<>>)

PrFull ==
    [title |-> "Fix null check", description |-> "desc",
     source_branch |-> "PROJ-42-fix", target_branch |-> "main",
     diff |-> "3-line diff", pr_url |-> "https://host/pr/1"]

PrNoUrl ==
    [title |-> "Fix null check", description |-> "desc",
     source_branch |-> "PROJ-42-fix", target_branch |-> "main",
     diff |-> "3-line diff"]

PrNoDiff ==
    [title |-> "Fix null check", description |-> "desc",
     source_branch |-> "PROJ-42-fix", target_branch |-> "main"]

PrDatas == {PrFull, PrNoUrl, PrNoDiff}

KnownPlaceholders ==
    {"ticket_id", "pr_title", "pr_url", "source_branch", "target_branch",
     "pr_description", "diff"}

Templates ==
    { <<Lit("Review this change.")>>,
      <<Lit("Review "), Ph("ticket_id"), Lit(": "), Ph("pr_title"), Lit(NL),
        Ph("diff")>>,
      <<Lit("Review by "), Ph("author")>>,
      <<Lit("Answer as "), Esc("{"), Lit("json"), Esc("}")>>,
      <<Lit("Review "), Pos>>,
      <<Lit("Review "), Open>> }

NoRequest ==
    [pr_data |-> PrFull, ticket_id |-> "", prompt_template |-> <<>>]

Requests ==
    { [pr_data |-> d, ticket_id |-> "PROJ-42", prompt_template |-> t] :
        d \in PrDatas, t \in Templates }

SubConfigs ==
    { [api_key |-> "", path |-> ""],
      [api_key |-> "PLACEHOLDER", path |-> ""],
      [api_key |-> "sk-live", path |-> ""],
      [api_key |-> "", path |-> "/opt/bin/cli"] }

NoSections == [n \in {} |-> EmptyConfig]

EngineNames ==
    {"claude-api", "claude-cli", "openai-api", "openai-codex-cli", "gemini"}

Ops == {"validate_config", "test_connection", "generate_review"}

ParserOff ==
    /\ output = <<>>
    /\ lines = <<>>
    /\ idx = 0
    /\ in_response = FALSE
    /\ response_lines = <<>>
    /\ result = <<>>
    /\ ppc = "off"
    /\ shape = [kind |-> "none"]

MainOff ==
    /\ mpc = "off"
    /\ exit_status = {}
    /\ saved = {}
    /\ calls = 0

EngineStart(name, cfg, environment, at) ==
    /\ MainOff
    /\ engine_name = name
    /\ config = cfg
    /\ env = environment
    /\ engine = NoEngine
    /\ op = "none"
    /\ pc = at
    /\ request = NoRequest
    /\ prompt = NoPrompt
    /\ temp_dir = NoDir
    /\ disk = EmptyDisk
    /\ child = NoChild
    /\ outcome = NoOutcome
    /\ probes = 0
    /\ created = {}
    /\ fault = "none"

EngineOff ==
    EngineStart("claude-api", NoSections,
                [exists |-> FALSE, which |-> FALSE, sdk |-> FALSE], "off")

Init ==
    /\ ParserOff
    /\ \E name \in EngineNames,
          environment \in [exists : BOOLEAN, which : BOOLEAN, sdk : BOOLEAN] :
        \E cfg \in {NoSections}
                     \cup { [n \in {name} |-> sub] : sub \in SubConfigs } :
           EngineStart(name, cfg, environment, "new")

\* ------------------------------------------------- parser: the inputs

CodexHeader == <<"T", " ", "codex">>
ThinkingHeader == <<"T", " ", "thinking">>
TokensFooter == <<"T", " ", "tokens used:", " ", "42">>
TitleLine == <<"#", " ", "PR Review: PROJ-42">>
SubHeadingLine == <<"#", "#", " ", "Summary">>

\* The lines the general specification builds transcripts from: every kind
\* of timestamped header, the skipped lines, and plain lines.
LineSet ==
    { CodexHeader, ThinkingHeader, TokensFooter,
      <<"T", " ", "exec", " ", "ls">>,
      <<"T", " ", "ls", " ", "succeeded">>,
      <<"T", " ", "note">>,
      <<" ", "T", " ", "codex">>,
      <<"model:", " ", "gpt-5">>,
      <<"--------">>,
      <<"LGTM">>, TitleLine, SubHeadingLine, <<>> }

\* Plain lines of a capturing region, and of a thinking block.
PlainLines == { <<"LGTM">>, <<"a">>, TitleLine, SubHeadingLine, <<>> }
ThinkLines == { <<"t">>, <<"u">> }
FirstLines == { TitleLine, SubHeadingLine }

SeqsUpTo(S, n) == UNION { [1..k -> S] : k \in 1..n }

ParserStart(text, sh) ==
    /\ EngineOff
    /\ output = text
    /\ shape = sh
    /\ lines = <<>>
    /\ idx = 0
    /\ in_response = FALSE
    /\ response_lines = <<>>
    /\ result = <<>>
    /\ ppc = "start"

\* Any transcript of at most MaxLines lines.
InitParser ==
    \E ls \in SeqsUpTo(LineSet, MaxLines) :
        ParserStart(Join(ls), [kind |-> "free"])

\* Two capturing regions separated by a thinking block.
InitRegions ==
    \E r1 \in SeqsUpTo(PlainLines, MaxRegion),
       th \in SeqsUpTo(ThinkLines, MaxRegion),
       r2 \in SeqsUpTo(PlainLines, MaxRegion) :
        ParserStart(
            Join(<<CodexHeader>> \o r1 \o <<ThinkingHeader>> \o th
                 \o <<CodexHeader>> \o r2),
            [kind |-> "regions", r1 |-> r1, th |-> th, r2 |-> r2])

\* A codex header, content lines that start with a heading, the usage
\* footer, and a trailing newline.
InitReview ==
    \E first \in FirstLines,
       rest \in SeqsUpTo(PlainLines, MaxContent - 1) \cup {<<>>} :
        ParserStart(
            Join(<<CodexHeader>> \o <<first>> \o rest \o <<TokensFooter>>)
                \o <<NL>>,
            [kind |-> "review", content |-> <<first>> \o rest])

\* ------------------------------------------------- parser: the steps

\* lines = output.strip().split("\n")
ParseStart ==
    /\ ppc = "start"
    /\ lines' = Split(Strip(output))
    /\ idx' = 1
    /\ ppc' = "loop"
    /\ UNCHANGED <<output, in_response, response_lines, result, shape>>
    /\ UNCHANGED <<evars, mvars>>

\* One iteration of "for line in lines".
ParseLine ==
    /\ ppc = "loop"
    /\ idx <= Len(lines)
    /\ LET st == LineStep([in_response |-> in_response,
                           response_lines |-> response_lines], lines[idx])
       IN /\ in_response' = st.in_response
          /\ response_lines' = st.response_lines
    /\ idx' = idx + 1
    /\ UNCHANGED <<output, lines, result, ppc, shape>>
    /\ UNCHANGED <<evars, mvars>>

\* After the loop: join, strip, drop what precedes the first heading.
ParseFinish ==
    /\ ppc = "loop"
    /\ idx > Len(lines)
    /\ result' = PostProcess(Assemble(response_lines))
    /\ ppc' = "done"
    /\ UNCHANGED <<output, lines, idx, in_response, response_lines, shape>>
    /\ UNCHANGED <<evars, mvars>>

NextParser == ParseStart \/ ParseLine \/ ParseFinish

SpecParser == InitParser /\ [][NextParser]_vars

SpecShaped == (InitRegions \/ InitReview) /\ [][NextParser]_vars

\* The timestamped headers the parser tells apart, one of each kind, a
\* bare "exec" tag, a tag of no kind, and a plain line.
MarkerLines ==
    { CodexHeader, ThinkingHeader, TokensFooter,
      <<"T", " ", "exec", " ", "ls">>,
      <<"T", " ", "OpenAI Codex">>,
      <<"T", " ", "User instructions">>,
      <<"T", " ", "ls", " ", "succeeded">>,
      <<"T", " ", "ls", " ", "failed">>,
      <<"T", " ", "exec">>,
      <<"T", " ", "note">>,
      <<"LGTM">> }

\* Any transcript of up to MaxLines of these lines.
InitMarkers ==
    \E ls \in SeqsUpTo(MarkerLines, MaxLines) :
        ParserStart(Join(ls), [kind |-> "free"])

SpecMarkers == InitMarkers /\ [][NextParser]_vars

\* The lines without a timestamp the parser tells apart: the six header
\* declarations, the rule with and without spaces around it, the reset
\* notice, an indented declaration, and content lines (a word, a heading,
\* an indented line, a blank line); the codex header starts the capture.
ContentLines ==
    { CodexHeader,
      <<"workdir:", " ", "/repo">>,
      <<"model:", " ", "gpt-5">>,
      <<"provider:", " ", "openai">>,
      <<"approval:", " ", "on-request">>,
      <<"sandbox:", " ", "read-only">>,
      <<"reasoning:", " ", "high">>,
      <<"--------">>,
      <<" ", "--------", " ">>,
      <<"Shell cwd was reset", " ", "to /repo">>,
      <<" ", "model:", " ", "gpt-5">>,
      <<"LGTM">>, TitleLine, <<" ", " ", "code">>, <<>> }

\* Any transcript of up to MaxLines of these lines, after a codex header
\* or after nothing.
InitContent ==
    \E first \in {<<>>, <<CodexHeader>>},
       ls \in SeqsUpTo(ContentLines, MaxLines) :
        ParserStart(Join(first \o ls), [kind |-> "free"])

SpecContent == InitContent /\ [][NextParser]_vars

\* ------------------------------------------------- the engine: steps

\* get_engine(engine_name, config)
GetEngine ==
    /\ pc = "new"
    /\ IF ~Registered(engine_name)
       THEN /\ outcome' = Raises("EngineError", "Unknown engine", Available)
            /\ pc' = "failed"
            /\ UNCHANGED engine
       ELSE /\ engine' = Construct(ClassOf(engine_name),
                                   SubSection(config, engine_name))
            /\ pc' = "idle"
            /\ UNCHANGED outcome
    /\ UNCHANGED <<engine_name, config, env, op, request, prompt, temp_dir,
                   disk, child, probes, created, fault>>
    /\ UNCHANGED <<pvars, mvars>>

\* The caller enters one of the three methods of the engine.
StartCall ==
    /\ pc \in {"idle", "returned"}
    /\ \E o \in Ops :
        /\ op' = o
        /\ IF o = "generate_review"
           THEN request' \in Requests
           ELSE request' = NoRequest
    /\ pc' = "entered"
    /\ prompt' = NoPrompt
    /\ temp_dir' = NoDir
    /\ child' = NoChild
    /\ outcome' = NoOutcome
    /\ probes' = 0
    /\ created' = {}
    /\ fault' = "none"
    /\ UNCHANGED <<engine_name, config, engine, env, disk>>
    /\ UNCHANGED <<pvars, mvars>>

\* Where a call goes once its configuration is valid.
AfterValidate(e, o) ==
    IF IsAPI(e) THEN "importing"
    ELSE IF UsesTempDir(e, o) THEN "mkdtemp"
    ELSE "ready"

\* As ShortCircuit, but test_connection goes on to the probe regardless.
ShortCircuitNotInTest(o, v) == o # "test_connection" /\ ~v.ok

\* As ShortCircuit, but generate_review of a process-CLI engine makes its
\* scratch directory first and validates inside the try.
ShortCircuitAfterMkdtemp(o, v) == o # "generate_review" /\ ~v.ok

\* "if not is_valid: return / raise" at the head of test_connection and
\* generate_review.
ShortCircuit(o, v) == ~v.ok

\* validate_config(), alone or as the first statement of the other two.
Validate ==
    /\ pc = "entered"
    /\ LET v == ValidateConfig(engine, env) IN
       IF op = "validate_config"
       THEN /\ outcome' = Pair(v.ok, v.reason)
            /\ pc' = "returned"
            /\ UNCHANGED fault
       ELSE IF ShortCircuit(op, v)
       THEN /\ outcome' = IF op = "test_connection"
                          THEN Pair(FALSE, v.reason)
                          ELSE Raises("EngineError", "Invalid configuration",
                                      <<v.reason>>)
            /\ pc' = "returned"
            /\ fault' = "invalid_config"
       ELSE /\ pc' = AfterValidate(engine, op)
            /\ fault' = IF v.ok THEN fault ELSE "invalid_config"
            /\ UNCHANGED outcome
    /\ engine' = SelfAfter(op, engine)
    /\ UNCHANGED <<engine_name, config, env, op, request, prompt,
                   temp_dir, disk, child, probes, created>>
    /\ UNCHANGED <<pvars, mvars>>

\* "import anthropic" / "import openai" of the hosted-API engines.
ImportSdk ==
    /\ pc = "importing"
    /\ IF ~env.sdk
       THEN /\ outcome' = IF op = "test_connection"
                          THEN Pair(FALSE, "package not installed")
                          ELSE EngineError("package not installed")
            /\ pc' = "returned"
            /\ fault' = "sdk_missing"
       ELSE /\ pc' = IF op = "generate_review" THEN "building" ELSE "ready"
            /\ UNCHANGED <<outcome, fault>>
    /\ UNCHANGED <<engine_name, config, engine, env, op, request, prompt,
                   temp_dir, disk, child, probes, created>>
    /\ UNCHANGED <<pvars, mvars>>

\* An exception of build_prompt leaves generate_review as it is: the call
\* is made before the try block.
Escapes(exc) == Raises(exc, "", <<>>)

\* prompt = self.build_prompt(pr_data, ticket_id, prompt_template)
BuildPrompt ==
    /\ pc = "building"
    /\ LET p == build_prompt(request.pr_data, request.ticket_id,
                             request.prompt_template) IN
       /\ prompt' = p
       /\ IF p.ok
          THEN /\ pc' = "ready"
               /\ UNCHANGED <<outcome, fault>>
          ELSE /\ outcome' = Escapes(p.exc)
               /\ pc' = "returned"
               /\ fault' = IF RequiredKeys \subseteq DOMAIN request.pr_data
                           THEN "template" ELSE "bad_request"
    /\ UNCHANGED <<engine_name, config, engine, env, op, request, temp_dir,
                   disk, child, probes, created>>
    /\ UNCHANGED <<pvars, mvars>>

\* temp_dir = Path(tempfile.mkdtemp(prefix=...))
Mkdtemp ==
    /\ pc = "mkdtemp"
    /\ \E d \in DirNames \ DOMAIN disk :
        /\ temp_dir' = d
        /\ disk' = Mkdir(d, disk)
        /\ created' = created \cup {d}
    /\ pc' = "staging"
    /\ UNCHANGED <<engine_name, config, engine, env, op, request, prompt,
                   child, outcome, probes, fault>>
    /\ UNCHANGED <<pvars, mvars>>

\* The finally clause of a call that made a scratch directory.
Finally(e, o, d, dk) == IF UsesTempDir(e, o) THEN Rmtree(d, dk) ELSE dk

\* The body of the try block up to the run: the files are written (only the
\* permissions file in test_connection).  A missing key of pr_data or a
\* failed write raises, the except clause catches, finally removes.
Stage ==
    /\ pc = "staging"
    /\ \E io \in {"ok", "OSError"} :
        LET exc == IF op = "generate_review"
                      /\ ~(RequiredKeys \subseteq DOMAIN request.pr_data)
                   THEN "KeyError"
                   ELSE IF io = "OSError" THEN "OSError" ELSE "none"
        IN IF exc = "none"
           THEN /\ disk' = WriteFiles(temp_dir, disk,
                                      [n \in IF op = "generate_review"
                                             THEN StagedFiles(engine)
                                             ELSE {PermissionsFile} |->
                                          FileContent(n, request)])
                /\ pc' = "ready"
                /\ UNCHANGED <<outcome, fault, temp_dir>>
           ELSE /\ outcome' = CaughtInCLI(op, exc)
                /\ disk' = Finally(engine, op, temp_dir, disk)
                /\ temp_dir' = NoDir
                /\ pc' = "returned"
                /\ fault' = IF exc = "KeyError" THEN "bad_request" ELSE "io_error"
    /\ UNCHANGED <<engine_name, config, engine, env, op, request, prompt,
                   child, probes, created>>
    /\ UNCHANGED <<pvars, mvars>>

\* subprocess.run(...): the program starts, or is not there to start.
Spawn ==
    /\ pc = "ready"
    /\ IsCLI(engine)
    /\ \E started \in BOOLEAN, hangs \in BOOLEAN :
        IF started
        THEN /\ child' = [NoChild EXCEPT !.state = "running",
                                         !.timeout = RunTimeout(engine, op),
                                         !.hangs = hangs, !.cwd = temp_dir]
             /\ probes' = probes + 1
             /\ pc' = "waiting"
             /\ UNCHANGED <<outcome, disk, temp_dir, fault>>
        ELSE /\ outcome' = CaughtInCLI(op, "FileNotFoundError")
             /\ disk' = Finally(engine, op, temp_dir, disk)
             /\ temp_dir' = NoDir
             /\ pc' = "returned"
             /\ fault' = "missing_executable"
             /\ UNCHANGED <<child, probes>>
    /\ UNCHANGED <<engine_name, config, engine, env, op, request, prompt,
                   created>>
    /\ UNCHANGED <<pvars, mvars>>

\* What went wrong with a run that ended.
RunFault(e, rc, out, err) ==
    IF rc # 0
    THEN IF Contains(err, <<"authentication">>) THEN "auth" ELSE "nonzero_exit"
    ELSE IF e.cls = "ClaudeCLIEngine"
         THEN IF Strip(out.raw) = <<>> THEN "unparseable_output" ELSE "none"
    ELSE IF ParseCodexOutput(out) = <<>> THEN "unparseable_output" ELSE "none"

\* The child exits; the call reads the exit code and the output, removes
\* the scratch directory and returns.
ChildExits ==
    /\ pc = "waiting"
    /\ IsCLI(engine)
    /\ ~child.hangs
    /\ \E rc \in {0, 1}, err \in StderrTexts,
          out \in IF engine.cls = "ClaudeCLIEngine"
                  THEN ClaudeOutputs ELSE CodexOutputs :
        LET stdout == CapturedStdout(engine, out, err) IN
        /\ outcome' =
              IF engine.cls = "ClaudeCLIEngine"
              THEN IF op = "generate_review"
                   THEN InterpretClaude(rc, stdout, err)
                   ELSE ProbeClaude(rc, stdout, err)
              ELSE IF op = "generate_review"
                   THEN InterpretCodex(rc, stdout, err)
                   ELSE ProbeCodex(rc, stdout, err)
        /\ fault' = RunFault(engine, rc, stdout, err)
        /\ child' = [child EXCEPT !.state = "exited", !.returncode = {rc},
                                  !.stdout = out, !.stderr = err]
    /\ disk' = Finally(engine, op, temp_dir, disk)
    /\ temp_dir' = NoDir
    /\ pc' = "returned"
    /\ UNCHANGED <<engine_name, config, engine, env, op, request, prompt,
                   probes, created>>
    /\ UNCHANGED <<pvars, mvars>>

\* The timeout of subprocess.run expires: the child is killed and reaped,
\* TimeoutExpired is raised and caught.
TimeoutExpires ==
    /\ pc = "waiting"
    /\ IsCLI(engine)
    /\ child.timeout # {}
    /\ child' = [child EXCEPT !.state = "killed"]
    /\ outcome' = CaughtInCLI(op, "TimeoutExpired")
    /\ disk' = Finally(engine, op, temp_dir, disk)
    /\ temp_dir' = NoDir
    /\ pc' = "returned"
    /\ fault' = "timeout"
    /\ UNCHANGED <<engine_name, config, engine, env, op, request, prompt,
                   probes, created>>
    /\ UNCHANGED <<pvars, mvars>>

\* client.messages.create(...) / client.chat.completions.create(...)
SendRequest ==
    /\ pc = "ready"
    /\ IsAPI(engine)
    /\ probes' = probes + 1
    /\ pc' = "waiting"
    /\ UNCHANGED <<engine_name, config, engine, env, op, request, prompt,
                   temp_dir, disk, child, outcome, created, fault>>
    /\ UNCHANGED <<pvars, mvars>>

ApiFault(resp) ==
    IF resp = "ok" THEN "none"
    ELSE IF resp = "malformed" THEN "malformed_response"
    ELSE resp

\* The API answers, or the SDK raises.
ApiResponds ==
    /\ pc = "waiting"
    /\ IsAPI(engine)
    /\ \E resp \in ApiResponses :
        \E body \in IF resp = "ok" THEN {<<>>} ELSE ApiErrorBodies :
            /\ outcome' = IF op = "generate_review"
                          THEN InterpretApi(resp, body) ELSE ProbeApi(resp)
            /\ fault' = ApiFault(resp)
            /\ pc' = AfterResponse(resp)
    /\ UNCHANGED <<engine_name, config, engine, env, op, request, prompt,
                   temp_dir, disk, child, probes, created>>
    /\ UNCHANGED <<pvars, mvars>>

Next ==
    \/ GetEngine
    \/ StartCall
    \/ Validate
    \/ ImportSdk
    \/ BuildPrompt
    \/ Mkdtemp
    \/ Stage
    \/ Spawn
    \/ ChildExits
    \/ TimeoutExpires
    \/ SendRequest
    \/ ApiResponds

Spec == Init /\ [][Next]_vars

\* --------------------------------------- build_prompt: inputs and step

\* Text between the placeholders of a template: none, words, a newline, a
\* JSON sample with doubled braces, a doubled brace alone.
Fillers ==
    { <<>>, <<Lit("Review ")>>, <<Lit(NL)>>,
      <<Esc("{"), Lit("json"), Esc("}")>>, <<Lit("a"), Esc("}")>> }

PlaceholderOrders ==
    { <<"ticket_id", "pr_title", "pr_url", "source_branch", "target_branch",
        "pr_description", "diff">>,
      <<"diff", "pr_description", "target_branch", "source_branch", "pr_url",
        "pr_title", "ticket_id">> }

\* order[from..], each placeholder followed by the text gap.
RECURSIVE Weave(_, _, _)
Weave(order, gap, from) ==
    IF from > Len(order) THEN <<>>
    ELSE <<Ph(order[from])>>
             \o (IF from < Len(order) THEN gap ELSE <<>>)
             \o Weave(order, gap, from + 1)

\* Templates that hold every known placeholder exactly once.
FullTemplates ==
    { pre \o Weave(order, gap, 1) \o post :
        order \in PlaceholderOrders,
        pre \in Fillers, gap \in Fillers, post \in Fillers }

\* Templates that hold no placeholder.
BareTemplates ==
    { a \o b : a \in Fillers, b \in Fillers \cup {<<Lit("x "), Open>>} }

PromptRequests ==
    { [pr_data |-> d, ticket_id |-> "PROJ-42", prompt_template |-> t] :
        d \in PrDatas, t \in FullTemplates \cup BareTemplates \cup Templates }

InitPrompt ==
    /\ ParserOff
    /\ MainOff
    /\ \E req \in PromptRequests :
        /\ request = req
        /\ engine_name = "claude-api"
        /\ config = NoSections
        /\ env = [exists |-> FALSE, which |-> FALSE, sdk |-> TRUE]
        /\ engine = NoEngine
        /\ op = "build_prompt"
        /\ pc = "format"
        /\ prompt = NoPrompt
        /\ temp_dir = NoDir
        /\ disk = EmptyDisk
        /\ child = NoChild
        /\ outcome = NoOutcome
        /\ probes = 0
        /\ created = {}
        /\ fault = "none"

\* prompt = self.build_prompt(pr_data, ticket_id, prompt_template)
FormatPrompt ==
    /\ pc = "format"
    /\ prompt' = build_prompt(request.pr_data, request.ticket_id,
                              request.prompt_template)
    /\ pc' = "formatted"
    /\ UNCHANGED <<engine_name, config, engine, env, op, request, temp_dir,
                   disk, child, outcome, probes, created, fault>>
    /\ UNCHANGED <<pvars, mvars>>

NextPrompt == FormatPrompt

SpecPrompt == InitPrompt /\ [][NextPrompt]_vars

\* ------------------------------------------- the review pipeline: steps

\* main has fetched the pull request and is about to name the engine.
InitPipeline ==
    /\ ParserOff
    /\ \E name \in EngineNames,
          environment \in [exists : BOOLEAN, which : BOOLEAN, sdk : BOOLEAN] :
        \E cfg \in {NoSections}
                     \cup { [n \in {name} |-> sub] : sub \in SubConfigs } :
           /\ engine_name = name
           /\ config = cfg
           /\ env = environment
    /\ engine = NoEngine
    /\ op = "none"
    /\ pc = "off"
    /\ request = NoRequest
    /\ prompt = NoPrompt
    /\ temp_dir = NoDir
    /\ disk = EmptyDisk
    /\ child = NoChild
    /\ outcome = NoOutcome
    /\ probes = 0
    /\ created = {}
    /\ fault = "none"
    /\ mpc = "label"
    /\ exit_status = {}
    /\ saved = {}
    /\ calls = 0

\* Lines 1255-1262 of main: an engine is made for its display name only,
\* and every exception of that is swallowed; then generate_review(...) of
\* whatthepatch.py is entered, which looks the engine up itself.
MainLabel ==
    /\ mpc = "label"
    /\ mpc' = "lookup"
    /\ pc' = "new"
    /\ UNCHANGED <<engine_name, config, engine, env, op, request, prompt,
                   temp_dir, disk, child, outcome, probes, created, fault>>
    /\ UNCHANGED <<exit_status, saved, calls>>
    /\ UNCHANGED pvars

\* return engine.generate_review(pr_data, ticket_id, prompt_template)
MainCall ==
    /\ mpc = "lookup"
    /\ pc = "idle"
    /\ \E req \in Requests : request' = req
    /\ op' = "generate_review"
    /\ pc' = "entered"
    /\ calls' = calls + 1
    /\ mpc' = "in_engine"
    /\ UNCHANGED <<engine_name, config, engine, env, prompt, temp_dir, disk,
                   child, outcome, probes, created, fault>>
    /\ UNCHANGED <<exit_status, saved>>
    /\ UNCHANGED pvars

\* As Caught, but the message of the error is returned as the review.
CaughtReturnsMessage(o) == [exits |-> FALSE, review |-> <<o.msg>>]

\* except EngineError as e: print(f"Error: {e}"); sys.exit(1)
Caught(o) == [exits |-> TRUE, review |-> <<>>]

\* get_engine or engine.generate_review raised EngineError.
MainCatch ==
    /\ mpc \in {"lookup", "in_engine"}
    /\ pc \in {"failed", "returned"}
    /\ outcome.kind = "raise" /\ outcome.exc = "EngineError"
    /\ IF Caught(outcome).exits
       THEN /\ exit_status' = {1}
            /\ mpc' = "exited"
            /\ UNCHANGED saved
       ELSE /\ saved' = saved \cup {Caught(outcome).review}
            /\ exit_status' = {0}
            /\ mpc' = "done"
    /\ UNCHANGED calls
    /\ UNCHANGED evars
    /\ UNCHANGED pvars

\* engine.generate_review raised something else: no handler in
\* generate_review or in main, the interpreter prints the traceback and
\* exits with status 1.
MainCrash ==
    /\ mpc = "in_engine"
    /\ pc = "returned"
    /\ outcome.kind = "raise" /\ outcome.exc # "EngineError"
    /\ exit_status' = {1}
    /\ mpc' = "exited"
    /\ UNCHANGED <<saved, calls>>
    /\ UNCHANGED evars
    /\ UNCHANGED pvars

\* Lines 1265-1281 of main: save_review(review, ...), then the end of main.
MainSave ==
    /\ mpc = "in_engine"
    /\ pc = "returned"
    /\ outcome.kind = "value"
    /\ saved' = saved \cup {outcome.value}
    /\ exit_status' = {0}
    /\ mpc' = "done"
    /\ UNCHANGED calls
    /\ UNCHANGED evars
    /\ UNCHANGED pvars

\* One run of the pipeline: the steps of main and, in between, the steps
\* of get_engine and of generate_review of the engine.
NextPipeline ==
    \/ MainLabel
    \/ GetEngine
    \/ MainCall
    \/ Validate
    \/ ImportSdk
    \/ BuildPrompt
    \/ Mkdtemp
    \/ Stage
    \/ Spawn
    \/ ChildExits
    \/ SendRequest
    \/ ApiResponds
    \/ MainCatch
    \/ MainCrash
    \/ MainSave

SpecPipeline == InitPipeline /\ [][NextPipeline]_vars

\* ------------------------------------------------- parser: the claims

\* A line of the form "[timestamp] codex", surrounding whitespace aside.
IsCodexForm(l) ==
    LET s == Strip(l) IN TimestampMatch(s) /\ TagContent(s) = <<"codex">>

NoCodexLine(text) ==
    \A i \in DOMAIN Split(text) : ~IsCodexForm(Split(text)[i])

\* A level-1 heading: "# " followed by at least one character.
IsH1Line(l) == Len(l) >= 3 /\ l[1] = "#" /\ l[2] = " "

\* An ATX heading of any level: one to six "#", then a space or the end.
IsMarkdownHeading(l) ==
    \E k \in 1..6 :
        /\ Len(l) >= k
        /\ \A i \in 1..k : l[i] = "#"
        /\ Len(l) = k \/ l[k + 1] = " "

RECURSIVE FromFirstH1(_)
FromFirstH1(ls) ==
    IF ls = <<>> THEN <<>>
    ELSE IF IsH1Line(Head(ls)) THEN ls ELSE FromFirstH1(Tail(ls))

RECURSIVE FromFirstHeading(_)
FromFirstHeading(ls) ==
    IF ls = <<>> THEN <<>>
    ELSE IF IsMarkdownHeading(Head(ls)) THEN ls ELSE FromFirstHeading(Tail(ls))

HasLine(text, l) == \E i \in DOMAIN Split(text) : Split(text)[i] = l

\* The trimmed capture buffer at the end of the loop.
Buffer == Assemble(response_lines)

Captured == shape.r1 \o shape.r2

ThinkingAbsent == \A i \in DOMAIN shape.th : ~HasLine(result, shape.th[i])

\* C2 as stated: with two capturing regions separated by a thinking block,
\* the result is the (trimmed) concatenation of both regions' lines in input
\* order, and holds no line of the thinking block.
C2_Original ==
    (ppc = "done" /\ shape.kind = "regions") =>
        /\ result = Strip(Join(Captured))
        /\ ThinkingAbsent

\* C2 (amended): with two capturing regions separated by a thinking block,
\* the result holds no line of the thinking block, and it is the trimmed
\* concatenation of both regions' lines in input order -- whole when that
\* concatenation begins with "#" or has no line "# " followed by a character,
\* and otherwise from its first such line onward.
C2_TwoRegions ==
    (ppc = "done" /\ shape.kind = "regions") =>
        LET whole == Strip(Join(Captured)) IN
        /\ ThinkingAbsent
        /\ IF whole = <<>> \/ whole[1] = "#"
              \/ \A i \in DOMAIN Split(whole) : ~IsH1Line(Split(whole)[i])
           THEN result = whole
           ELSE result = Join(FromFirstH1(Split(whole)))

\* Both regions contribute a line to the result.
C2_Witness ==
    /\ ppc = "done"
    /\ shape.kind = "regions"
    /\ shape.r1[1] # <<>>
    /\ shape.r2[1] # <<>>
    /\ result = Join(Captured)

\* C3: for an input with no line of the form "[timestamp] codex", the parser
\* is Idle at every step, captures nothing, and returns the empty string.
C3_NoMarkerStaysIdle ==
    NoCodexLine(output) =>
        /\ in_response = FALSE
        /\ response_lines = <<>>
        /\ ppc = "done" => result = <<>>

\* A finished parse of a transcript without a codex header that has other
\* timestamped headers and plain text.
C3_Witness ==
    /\ ppc = "done"
    /\ NoCodexLine(output)
    /\ \E i \in DOMAIN lines : TimestampMatch(lines[i])
    /\ \E i \in DOMAIN lines : lines[i] = <<"LGTM">>
    /\ result = <<>>

C5_ReviewExtracted ==
    (ppc = "done" /\ shape.kind = "review") =>
        LET c == shape.content IN
        /\ result = Strip(Join(c))
        /\ c[Len(c)] # <<>> => result = Join(c)
        /\ \A i \in DOMAIN result : result[i] # "T"
        /\ result # <<>> => result[Len(result)] # NL
        /\ c = <<TitleLine, <<"LGTM">>>> =>
               result = <<"#", " ", "PR Review: PROJ-42", NL, "LGTM">>

\* The scenario of the specification has been parsed.
C5_Witness ==
    /\ ppc = "done"
    /\ shape.kind = "review"
    /\ output = CodexHeader \o <<NL>> \o TitleLine \o <<NL, "LGTM", NL>>
                  \o TokensFooter \o <<NL>>
    /\ result = <<"#", " ", "PR Review: PROJ-42", NL, "LGTM">>

\* ------------------------------------------------- the engine: claims

Returned(o) == pc = "returned" /\ op = o

RaisedEngineError ==
    outcome.kind = "raise" /\ outcome.exc = "EngineError" /\ outcome.msg # ""

\* C1: when generate_review or test_connection of a process-CLI engine has
\* returned or raised, no scratch directory that the call created exists.
C1_ScratchRemoved ==
    (pc = "returned" /\ IsCLI(engine)
        /\ op \in {"generate_review", "test_connection"})
    => /\ created \cap DOMAIN disk = {}
       /\ temp_dir = NoDir

\* A generate_review call that made a scratch directory has failed while
\* the files were written, and has raised EngineError.
C1_Witness ==
    /\ Returned("generate_review")
    /\ created # {}
    /\ fault \in {"io_error", "bad_request"}
    /\ RaisedEngineError
    /\ DOMAIN disk = {}

\* C6: get_engine with an unregistered identifier raises EngineError with a
\* message that lists every identifier of list_engines, and constructs no
\* engine.
C6_UnknownEngine ==
    (~Registered(engine_name) /\ pc # "new") =>
        /\ pc = "failed"
        /\ RaisedEngineError
        /\ outcome.msg = "Unknown engine"
        /\ \A i \in DOMAIN list_engines :
               \E j \in DOMAIN outcome.detail :
                   outcome.detail[j] = list_engines[i]
        /\ engine = NoEngine

\* get_engine has refused the identifier "gemini".
C6_Witness ==
    /\ pc = "failed"
    /\ engine_name = "gemini"
    /\ outcome.kind = "raise"
    /\ Len(outcome.detail) = Len(ENGINES)

\* C7: test_connection on an engine whose configuration is invalid returns
\* (False, the reason validate_config gives) right after validate_config:
\* no request was sent, no process spawned, no scratch directory made.
C7_TestShortCircuits ==
    (op = "test_connection" /\ pc # "entered"
        /\ ~ValidateConfig(engine, env).ok)
    => /\ pc = "returned"
       /\ outcome = Pair(FALSE, ValidateConfig(engine, env).reason)
       /\ probes = 0
       /\ created = {}
       /\ child = NoChild
       /\ DOMAIN disk = {}

\* test_connection of the claude-cli engine has returned the reason of an
\* executable that is not on the search path.
C7_Witness ==
    /\ Returned("test_connection")
    /\ engine.cls = "ClaudeCLIEngine"
    /\ outcome = Pair(FALSE, "CLI not found in PATH")
    /\ probes = 0

\* The failures after which generate_review is to raise.
C8Faults ==
    {"invalid_config", "missing_executable", "nonzero_exit",
     "malformed_response", "timeout", "auth", "rate_limit",
     "unparseable_output"}

\* C8 as stated: a generate_review call in which one of the listed failures
\* happened ends by raising EngineError with a cause, never by returning.
C8_FailsWithEngineError ==
    (Returned("generate_review") /\ fault \in C8Faults) => RaisedEngineError

HasUnknownPlaceholder(tpl) ==
    \E i \in DOMAIN tpl : tpl[i].t = "ph" /\ tpl[i].v \notin KnownPlaceholders

\* C9 as stated: when build_prompt fails on a template with a placeholder
\* outside the fixed set, generate_review ends by raising EngineError.
C9_TemplateErrorSurfaced ==
    (Returned("generate_review") /\ ~prompt.ok
        /\ HasUnknownPlaceholder(request.prompt_template))
    => RaisedEngineError

\* C10 as stated: every run of an external program by a CLI engine, in
\* generate_review and in test_connection, has a timeout.
C10_RunsAreBounded ==
    (pc = "waiting" /\ IsCLI(engine)) => child.timeout # {}

\* C11 as stated: a process-CLI engine whose child exited with code zero
\* never returns an empty review from generate_review: an empty parse or
\* unwrapped result, or an envelope with is_error, raises EngineError.
C11_NeverEmptyReview ==
    (Returned("generate_review") /\ IsCLI(engine) /\ child.state = "exited")
    => \/ RaisedEngineError
       \/ outcome.kind = "value" /\ outcome.value # <<>>

\* The failures of the request that C12 tells apart.
C12Faults == {"auth", "rate_limit", "api_error"}

\* C12: generate_review of a hosted-API engine turns an authentication
\* failure, a rate limit and a generic API error into EngineErrors whose
\* causes are pairwise distinct: the cause raised for one of the three is
\* raised for neither of the other two.
C12_DistinctCauses ==
    (Returned("generate_review") /\ IsAPI(engine) /\ fault \in C12Faults)
    => /\ RaisedEngineError
       /\ \A f \in C12Faults \ {fault}, b \in ApiErrorBodies :
              outcome.msg # InterpretApi(f, b).msg

C12_Witness ==
    /\ Returned("generate_review") /\ IsAPI(engine) /\ fault = "rate_limit"
    /\ RaisedEngineError
    /\ outcome.msg = "Rate limit exceeded. Please try again later."

\* The failures of one backend invocation that a retry would hide.
C13Faults == {"rate_limit", "api_error", "timeout", "nonzero_exit"}

\* C13: one call of generate_review invokes the backend at most once (one
\* request, one spawn), and a rate limit or transport failure of that one
\* invocation is raised as EngineError without a second attempt.
C13_NoRetry ==
    /\ (op = "generate_review" /\ pc \notin {"off", "new", "failed"})
       => probes <= 1
    /\ (Returned("generate_review") /\ fault \in C13Faults)
       => RaisedEngineError /\ probes = 1

C13_Witness ==
    /\ Returned("generate_review") /\ IsAPI(engine) /\ fault = "timeout"
    /\ RaisedEngineError /\ probes = 1

\* The configuration faults validate_config looks for: a missing or
\* placeholder key, an executable that is not where it is looked for.
Misconfigured ==
    IF IsAPI(engine)
    THEN engine.config.api_key \in {"", "PLACEHOLDER"}
    ELSE IF engine.config.path # "" THEN ~env.exists ELSE ~env.which

\* The failures of a probe that C14 lists.
C14Faults ==
    {"invalid_config", "missing_executable", "nonzero_exit", "auth", "timeout"}

\* C14: validate_config and test_connection of every engine answer with a
\* pair and never raise: (FALSE, message) for a misconfiguration or a
\* failed probe, (TRUE, no message) otherwise.
C14_ReportsPairs ==
    /\ (Returned("validate_config") \/ Returned("test_connection"))
       => /\ outcome.kind = "pair"
          /\ outcome.ok <=> outcome.msg = "None"
          /\ Misconfigured => ~outcome.ok
    /\ (Returned("test_connection") /\ fault \in C14Faults) => ~outcome.ok
    /\ (Returned("validate_config") /\ ~Misconfigured) => outcome.ok

C14_Witness ==
    /\ Returned("test_connection") /\ IsCLI(engine) /\ fault = "timeout"
    /\ outcome = Pair(FALSE, "CLI timed out")

\* generate_review of a process-CLI engine has spawned the program, which
\* has not exited yet.
AtSpawn == op = "generate_review" /\ IsCLI(engine) /\ pc = "waiting"

\* The three files of the request are in the working directory of the
\* child, the diff and the template as they were given.
RequestStaged ==
    /\ child.cwd = temp_dir
    /\ temp_dir \in DOMAIN disk
    /\ {"diff.patch", "pr-metadata.txt", "review-template.md"}
           \subseteq DOMAIN disk[temp_dir]
    /\ disk[temp_dir]["diff.patch"] = request.pr_data["diff"]
    /\ disk[temp_dir]["review-template.md"] = request.prompt_template

\* The permissions file is in the working directory of the child, and its
\* path rules name that directory only.
PermissionsStaged ==
    /\ child.cwd \in DOMAIN disk
    /\ PermissionsFile \in DOMAIN disk[child.cwd]
    /\ \A r \in disk[child.cwd][PermissionsFile].allow :
           r \in {"Read(./**)", "Edit(./**)", "Bash(find:*)", "Bash(ls:*)"}

WellFormed(req) == RequiredKeys \subseteq DOMAIN req.pr_data

\* The template holds each known placeholder exactly once, and no other
\* replacement field.
OnceEach(tpl) ==
    /\ \A k \in KnownPlaceholders :
           Cardinality({i \in 1..Len(tpl) : tpl[i] = Ph(k)}) = 1
    /\ \A i \in 1..Len(tpl) :
           /\ tpl[i].t # "pos"
           /\ tpl[i].t = "ph" => tpl[i].v \in KnownPlaceholders

NoPlaceholder(tpl) == \A i \in 1..Len(tpl) : tpl[i].t \notin {"ph", "pos"}

HasBrace(tpl) == \E i \in 1..Len(tpl) : tpl[i].t \in {"esc", "open"}

\* The field of the request a placeholder stands for.
Field(req, name) ==
    IF name = "ticket_id" THEN req.ticket_id
    ELSE IF name = "pr_title" THEN req.pr_data["title"]
    ELSE IF name = "pr_url"
         THEN IF "pr_url" \in DOMAIN req.pr_data
              THEN req.pr_data["pr_url"] ELSE ""
    ELSE IF name = "source_branch" THEN req.pr_data["source_branch"]
    ELSE IF name = "target_branch" THEN req.pr_data["target_branch"]
    ELSE IF name = "pr_description" THEN req.pr_data["description"]
    ELSE req.pr_data["diff"]

\* A piece of a template as it is written in the template.
Written(p) ==
    IF p.t = "esc" THEN (IF p.v = "{" THEN "{{" ELSE "}}")
    ELSE IF p.t = "open" THEN "{"
    ELSE p.v

\* The template with each placeholder replaced by its field, and every
\* other piece as it is written.
Substituted(req) ==
    [i \in 1..Len(req.prompt_template) |->
        IF req.prompt_template[i].t = "ph"
        THEN Field(req, req.prompt_template[i].v)
        ELSE Written(req.prompt_template[i])]

\* The same, with a doubled brace rendered as a single one.
Rendered(req) ==
    [i \in 1..Len(req.prompt_template) |->
        IF req.prompt_template[i].t = "ph"
        THEN Field(req, req.prompt_template[i].v)
        ELSE req.prompt_template[i].v]

\* build_prompt has run on a request C16 speaks of.
C16Case ==
    /\ pc = "formatted"
    /\ WellFormed(request)
    /\ OnceEach(request.prompt_template) \/ NoPlaceholder(request.prompt_template)

\* C16 as stated: for a well-formed request and a template with each known
\* placeholder exactly once, or with none, build_prompt returns the
\* template with the placeholders replaced by their fields and all other
\* text as written.
C16_Original == C16Case => (prompt.ok /\ prompt.text = Substituted(request))

\* C16, amended: the same holds when the other text of the template has no
\* brace; a doubled brace in it is rendered as a single brace, and a lone
\* brace makes build_prompt raise ValueError.
C16_Substitutes ==
    C16Case
    => /\ ~HasBrace(request.prompt_template)
          => (prompt.ok /\ prompt.text = Substituted(request))
       /\ IF \E i \in 1..Len(request.prompt_template) :
                 request.prompt_template[i].t = "open"
          THEN ~prompt.ok /\ prompt.exc = "ValueError"
          ELSE prompt.ok /\ prompt.text = Rendered(request)

C16_Witness ==
    /\ C16Case
    /\ OnceEach(request.prompt_template)
    /\ ~HasBrace(request.prompt_template)
    /\ Len(request.prompt_template) > Cardinality(KnownPlaceholders)
    /\ prompt.ok /\ prompt.text = Substituted(request)

\* C17 as stated: the backend text that the message of an EngineError of
\* generate_review embeds (the output of the child, the error result of the
\* envelope, the text of the API error) is at most 500 characters long.
C17_ErrorBodyBounded ==
    (Returned("generate_review") /\ RaisedEngineError)
    => Len(outcome.detail) <= ErrorBodyLimit

\* The engine get_engine constructed, as a function of the arguments of
\* get_engine, which no step changes.
AsConstructed ==
    [cls |-> ClassOf(engine_name),
     config |-> IF engine_name \in DOMAIN config
                THEN config[engine_name] ELSE EmptyConfig]

\* C18: after construction no call of validate_config, test_connection or
\* generate_review changes the engine or its configuration, and
\* validate_config has no side effect (no directory, no child, no backend
\* invocation) and answers as the constructed configuration and the
\* environment determine, however many calls came before.
C18_EngineImmutable ==
    /\ pc \notin {"off", "new", "failed", "format", "formatted"}
       => engine = AsConstructed
    /\ Returned("validate_config")
       => /\ outcome = Pair(ValidateConfig(AsConstructed, env).ok,
                            ValidateConfig(AsConstructed, env).reason)
          /\ probes = 0 /\ created = {} /\ disk = EmptyDisk
          /\ child = NoChild /\ temp_dir = NoDir /\ prompt = NoPrompt

C18_Witness ==
    /\ Returned("validate_config") /\ IsCLI(engine)
    /\ engine.config.path = "" /\ env.which
    /\ outcome = Pair(TRUE, "None")

IsNonResponseHeader(line) ==
    /\ TimestampMatch(line)
    /\ LET tag == TagContent(line) IN
       /\ tag # <<>>
       /\ \/ tag[1] \in {"thinking", "tokens used:", "OpenAI Codex",
                         "User instructions"}
          \/ Len(tag) >= 2 /\ tag[1] = "exec" /\ tag[2] = " "
          \/ \E i \in 1..(Len(tag) - 1) :
                 tag[i] = " " /\ tag[i + 1] \in {"succeeded", "failed"}

IsCodexHeader(line) == TimestampMatch(line) /\ TagContent(line) = <<"codex">>

\* C20: a timestamped header whose tag starts with a non-response marker or
\* is a command-result line leaves the parser Idle, from either state, and
\* is not captured; and while the parser is Idle nothing is captured and it
\* stays Idle until a codex header is read.
C20_MarkerEndsCapture ==
    [][(ppc = "loop" /\ idx <= Len(lines))
       => /\ IsNonResponseHeader(lines[idx])
             => (~in_response' /\ response_lines' = response_lines)
          /\ (~in_response /\ ~IsCodexHeader(lines[idx]))
             => (~in_response' /\ response_lines' = response_lines)]_vars

C20_Witness ==
    /\ ppc = "loop" /\ idx = 4
    /\ lines = <<CodexHeader, <<"T", " ", "ls", " ", "failed">>, <<"LGTM">>>>
    /\ ~in_response /\ response_lines = <<>>

\* A timestamped header whose tag is neither codex, nor a non-response
\* marker, nor a command-result line.
IsOtherHeader(line) ==
    /\ TimestampMatch(line)
    /\ ~IsCodexHeader(line)
    /\ ~IsNonResponseHeader(line)

\* C21: a timestamped header whose tag is neither codex, nor a non-response
\* marker, nor a command-result line is discarded: the parser state stays
\* what it was (Capturing or Idle) and the output buffer is unchanged.
C21_OtherHeaderKeepsState ==
    [][(ppc = "loop" /\ idx <= Len(lines) /\ IsOtherHeader(lines[idx]))
       => (in_response' = in_response /\ response_lines' = response_lines)]_vars

C21_Witness ==
    /\ ppc = "loop" /\ idx = 4
    /\ lines = <<CodexHeader, <<"T", " ", "note">>, <<"LGTM">>>>
    /\ in_response /\ response_lines = << <<"LGTM">> >>

\* A line without a timestamp that is a header declaration, the rule, or
\* the reset notice.
IsNonContentLine(line) ==
    /\ ~TimestampMatch(line)
    /\ \/ line # <<>>
          /\ line[1] \in {"workdir:", "model:", "provider:", "approval:",
                          "sandbox:", "reasoning:", "Shell cwd was reset"}
       \/ Strip(line) = <<"--------">>

\* C22: a line without a timestamp that is a header declaration (workdir,
\* model, provider, approval, sandbox, reasoning), the rule "--------" or a
\* "Shell cwd was reset" notice is discarded in both states: the parser
\* state and the output buffer are unchanged.
C22_NonContentSkipped ==
    [][(ppc = "loop" /\ idx <= Len(lines) /\ IsNonContentLine(lines[idx]))
       => (in_response' = in_response /\ response_lines' = response_lines)]_vars

C22_Witness ==
    /\ ppc = "loop" /\ idx = 4
    /\ lines = <<CodexHeader, <<"Shell cwd was reset", " ", "to /repo">>,
                 <<"LGTM">>>>
    /\ in_response /\ response_lines = << <<"LGTM">> >>

\* A line that is neither a timestamped header nor a non-content line.
IsContentLine(line) == ~TimestampMatch(line) /\ ~IsNonContentLine(line)

\* The blank lines of the buffer that lie between two lines that are not
\* blank are in the result res, between the same neighbours.
BlankKept(buf, res) ==
    \A i \in 2..(Len(buf) - 1) :
        (buf[i] = <<>> /\ Strip(buf[i - 1]) # <<>> /\ Strip(buf[i + 1]) # <<>>)
        => Contains(res, <<buf[i - 1][Len(buf[i - 1])], NL, NL, buf[i + 1][1]>>)

ChildDone == pc = "returned" /\ IsCLI(engine) /\ child.state = "exited"

\* What the call makes of the exit code rc and of the text stdout alone.
FromStdoutAlone(rc, stdout) ==
    IF engine.cls = "ClaudeCLIEngine"
    THEN IF op = "generate_review" THEN InterpretClaude(rc, stdout, <<>>)
         ELSE ProbeClaude(rc, stdout, <<>>)
    ELSE IF op = "generate_review" THEN InterpretCodex(rc, stdout, <<>>)
         ELSE ProbeCodex(rc, stdout, <<>>)

\* C24: the text a process-CLI engine hands to the transcript parser or to
\* the JSON unwrap is what the child wrote to stdout, and nothing of what
\* it wrote to stderr: after exit code 0 the call answers as it would had
\* the child written nothing to stderr.
C24_StdoutAlone ==
    (ChildDone /\ child.returncode = {0})
    => outcome = FromStdoutAlone(0, child.stdout)

C24_Witness ==
    /\ ChildDone /\ op = "generate_review" /\ child.returncode = {0}
    /\ engine.cls = "OpenAICodexCLIEngine"
    /\ child.stderr = <<"boom">>
    /\ outcome = Returns(<<"LGTM">>)

\* C25: generate_review of a process-CLI engine whose configuration is not
\* valid raises EngineError("Invalid configuration: ...") right after
\* validate_config: no scratch directory was made, no process spawned, and
\* nothing is on disk.
C25_InvalidConfigLeavesNothing ==
    (op = "generate_review" /\ IsCLI(engine) /\ pc # "entered" /\ Misconfigured)
    => /\ pc = "returned"
       /\ RaisedEngineError /\ outcome.msg = "Invalid configuration"
       /\ created = {} /\ disk = EmptyDisk /\ temp_dir = NoDir
       /\ probes = 0 /\ child.state = "none"

C25_Witness ==
    /\ Returned("generate_review")
    /\ engine.cls = "OpenAICodexCLIEngine"
    /\ engine.config.path # "" /\ ~env.exists
    /\ outcome = Raises("EngineError", "Invalid configuration",
                        <<"CLI not found at path">>)
    /\ created = {}

\* The exit code of the child a process-CLI generate_review waited for.
ExitedWith(rc) ==
    ChildDone /\ op = "generate_review" /\ child.returncode = {rc}

\* C26: generate_review of a process-CLI engine reads the output of the
\* child only after exit code 0; after any other exit code it raises
\* EngineError("... CLI failed") with the error body, whatever stdout
\* holds, a complete review included.
C26_NonZeroExitRaises ==
    /\ ExitedWith(1)
       => /\ RaisedEngineError
          /\ outcome.msg \in {"Claude CLI failed", "Codex CLI failed"}
          /\ outcome.value = <<>>
    /\ ExitedWith(0)
       => outcome.msg \notin {"Claude CLI failed", "Codex CLI failed"}

C26_Witness ==
    /\ ExitedWith(1)
    /\ engine.cls = "OpenAICodexCLIEngine"
    /\ ParseCodexOutput(child.stdout) = ReviewText
    /\ child.stderr = <<>>
    /\ RaisedEngineError /\ outcome.msg = "Codex CLI failed"

NoH1Line(text) == \A i \in DOMAIN Split(text) : ~IsH1Line(Split(text)[i])

\* C27: the result of the parser is empty, or begins with "#", or has no
\* line "# " followed by at least one character; a captured answer without
\* such a line is returned whole (trimmed), not dropped.
C27_ResultShape ==
    ppc = "done"
    => /\ result = <<>> \/ result[1] = "#" \/ NoH1Line(result)
       /\ NoH1Line(Buffer) => result = Buffer

C27_Witness ==
    /\ ppc = "done"
    /\ lines = <<CodexHeader, <<"LGTM">>, SubHeadingLine>>
    /\ result = <<"LGTM", NL>> \o SubHeadingLine

\* The lines of the result; the empty result has none.
ResultLines == IF result = <<>> THEN <<>> ELSE Split(result)

\* Line j of the input is content (no timestamped header, no non-content
\* line) and comes after a codex header.
Eligible(j) ==
    /\ IsContentLine(lines[j])
    /\ \E i \in 1..(j - 1) : IsCodexHeader(lines[i])

\* Line k of the result is line j of the input; the first and the last
\* line of the result may have lost whitespace at the trimmed end.
SameLine(k, j) ==
    IF k = 1 \/ k = Len(ResultLines)
    THEN Strip(ResultLines[k]) = Strip(lines[j])
    ELSE ResultLines[k] = lines[j]

\* Lines k.. of the result are, in order, eligible lines from.. of the
\* input: each is matched with the first line that fits.
RECURSIVE SubsequenceFrom(_, _)
SubsequenceFrom(k, from) ==
    IF k > Len(ResultLines) THEN TRUE
    ELSE LET fits == { j \in from..Len(lines) : Eligible(j) /\ SameLine(k, j) }
         IN fits # {} /\ SubsequenceFrom(k + 1, Min(fits) + 1)

\* C28 as stated: the lines of the result are, in input order, a
\* subsequence of the content lines of the input that come after a codex
\* header, and no line of the result is a timestamped header.
C28_Original ==
    ppc = "done"
    => /\ SubsequenceFrom(1, 1)
       /\ \A k \in DOMAIN ResultLines : ~TimestampMatch(ResultLines[k])

\* C28, amended: the lines of the result are, in input order and up to the
\* whitespace trimmed at the two ends of the result, a subsequence of the
\* content lines of the input that come after a codex header; no line that
\* begins with a timestamp in the input is in the result, but a line with
\* whitespace before its timestamp is content and can be, trimmed, the
\* first line of the result.
C28_Subsequence ==
    ppc = "done"
    => /\ SubsequenceFrom(1, 1)
       /\ \A k \in DOMAIN ResultLines :
              TimestampMatch(ResultLines[k])
              => /\ k = 1
                 /\ \E j \in DOMAIN lines :
                        /\ Eligible(j) /\ lines[j] # ResultLines[k]
                        /\ Strip(lines[j]) = ResultLines[k]

C28_Witness ==
    /\ ppc = "done"
    /\ lines = <<CodexHeader, <<"T", " ", "note">>, <<"LGTM">>>>
    /\ result = <<"LGTM">>

\* C29 as stated: whatever the engine, the request and the template, an
\* exception that leaves generate_review is an EngineError.
C29_OnlyEngineErrorEscapes ==
    (Returned("generate_review") /\ outcome.kind = "raise")
    => outcome.exc = "EngineError"

\* The run of the pipeline has ended.
RunEnded == mpc \in {"exited", "done"}

\* C30: one run of the pipeline calls generate_review of an engine at most
\* once, and exactly once when the engine was found, on the engine named
\* by the configuration; when the lookup or the call raised EngineError
\* the run ends with exit status 1 and no review was saved; a review is
\* saved only after generate_review returned, and it is what was returned.
C30_OneCallThenSaveOrExit ==
    /\ calls <= 1
    /\ calls = 1 => engine = AsConstructed
    /\ (RunEnded /\ Registered(engine_name)) => calls = 1
    /\ (RunEnded /\ ~Registered(engine_name)) => calls = 0
    /\ (RunEnded /\ outcome.kind = "raise" /\ outcome.exc = "EngineError")
       => (exit_status = {1} /\ saved = {})
    /\ saved # {}
       => /\ calls = 1 /\ pc = "returned" /\ mpc = "done"
          /\ outcome.kind = "value" /\ saved = {outcome.value}

C30_Witness ==
    /\ mpc = "exited" /\ calls = 1
    /\ RaisedEngineError /\ fault = "rate_limit"
    /\ exit_status = {1} /\ saved = {}

====
